---- MODULE Spec2Model ----
(***************************************************************************)
(* Captured collections and deferred Tokens of the construct library:      *)
(*   - StepScalingAction  (adjustments, read by the stepAdjustments Token) *)
(*   - Alarm              (three lazily created action ARN lists)          *)
(*   - TopicBase          (resource policy of live and imported topics,    *)
(*                         subscriptions, grants, PublishToTopic.bind)     *)
(*   - Alarm              (construction, import by ARN, annotation label)  *)
(*   - pipeline role      (permission statements of CloudFormation actions)*)
(***************************************************************************)
EXTENDS Integers, Sequences, FiniteSets, TLC

\* ------------------------------------------------------------------ bounds
MaxAdjustmentCalls == 3
MaxAlarmCalls == 2
MaxResolutions == 2
MaxTokenCalls == 2
MaxPolicyCalls == 3
MaxTopicCalls == 2
MaxStackCalls == 2

\* ------------------------------------------------------- optional values
\* A TypeScript value that may be `undefined`.
Undefined == [defined |-> FALSE]
Def(v) == [defined |-> TRUE, value |-> v]

NoError == "none"

Last(s) == s[Len(s)]

VARIABLES
  adjustments,                \* StepScalingAction.adjustments
  adjustmentCalls,            \* every addAdjustment call made so far (its argument)
  alarmActionArns,            \* Alarm.alarmActionArns
  insufficientDataActionArns, \* Alarm.insufficientDataActionArns
  okActionArns,               \* Alarm.okActionArns
  alarmCalls,                 \* every add*Action call made so far
  resolutions,                \* what each resolution of the Tokens so far returned
  policy,                     \* TopicBase.policy, per topic
  children,                   \* construct children of each topic, in creation order
  policyCalls,                \* every addToResourcePolicy call made so far, per topic
  statements,                 \* RoleDouble.statements of the pipeline role
  attachedActions,            \* the actions attached to the pipeline stage so far
  thrown,                     \* error thrown by the last call, or NoError
  topicCalls,                 \* every subscribe*, grantPublish and bind call made so far
  queueChildren,              \* construct children of each queue, in creation order
  queuePolicy,                \* statements of each queue's resource policy
  functionChildren,           \* construct children of each Lambda function
  functionPermissions,        \* permissions added to each Lambda function
  principalPolicy,            \* statements granted to each principal
  taskConfig,                 \* what the last PublishToTopic.bind returned
  stackChildren,              \* construct children of the stack the alarms live in
  stackCalls                  \* every Alarm construction / import made so far

vars == << adjustments, adjustmentCalls,
           alarmActionArns, insufficientDataActionArns, okActionArns,
           alarmCalls, resolutions,
           policy, children, policyCalls, statements, attachedActions, thrown,
           topicCalls, queueChildren, queuePolicy, functionChildren,
           functionPermissions, principalPolicy, taskConfig,
           stackChildren, stackCalls >>

scalingVars == << adjustments, adjustmentCalls >>
alarmVars == << alarmActionArns, insufficientDataActionArns, okActionArns, alarmCalls >>
topicVars == << policy, children, policyCalls >>
pipelineVars == << statements, attachedActions >>
subscribeVars == << topicCalls, queueChildren, queuePolicy, functionChildren,
                    functionPermissions, principalPolicy, taskConfig >>
stackVars == << stackChildren, stackCalls >>

\* =================================================== StepScalingAction ===

InvalidTierError == "At least one of lowerBound or upperBound is required"

\* Inputs of addAdjustment: AdjustmentTier values.
BoundValues == {Undefined, Def(10)}
AdjustmentValues == {-1, 1}
AdjustmentTiers ==
  [adjustment : AdjustmentValues, lowerBound : BoundValues, upperBound : BoundValues]

\* The entry addAdjustment pushes for a tier.
StepAdjustmentProperty(adjustment) ==
  [metricIntervalLowerBound |-> adjustment.lowerBound,
   metricIntervalUpperBound |-> adjustment.upperBound,
   scalingAdjustment |-> adjustment.adjustment]

\* Faulty variant of addAdjustment: the bound check is missing.
addAdjustment_NoCheck(adjs, adjustment) ==
  [thrown |-> NoError,
   adjustments |-> Append(adjs, StepAdjustmentProperty(adjustment))]

\* Faulty variant of addAdjustment: unshift instead of push.
addAdjustment_Prepend(adjs, adjustment) ==
  IF adjustment.lowerBound = Undefined /\ adjustment.upperBound = Undefined
  THEN [thrown |-> InvalidTierError, adjustments |-> adjs]
  ELSE [thrown |-> NoError,
        adjustments |-> <<StepAdjustmentProperty(adjustment)>> \o adjs]

\* StepScalingAction.addAdjustment: the error it throws (if any) and the
\* adjustments array after the call.
addAdjustment(adjs, adjustment) ==
  IF adjustment.lowerBound = Undefined /\ adjustment.upperBound = Undefined
  THEN [thrown |-> InvalidTierError, adjustments |-> adjs]
  ELSE [thrown |-> NoError,
        adjustments |-> Append(adjs, StepAdjustmentProperty(adjustment))]

\* The producer of the Token created in the constructor: () => this.adjustments
stepAdjustments == Def(adjustments)

AddAdjustment ==
  /\ Len(adjustmentCalls) < MaxAdjustmentCalls
  /\ \E adjustment \in AdjustmentTiers :
       LET r == addAdjustment(adjustments, adjustment) IN
         /\ adjustments' = r.adjustments
         /\ thrown' = r.thrown
         /\ adjustmentCalls' = Append(adjustmentCalls, adjustment)
  /\ UNCHANGED << resolutions, alarmVars, topicVars, pipelineVars, subscribeVars, stackVars >>

\* ================================================================ Alarm ===

Actions == {"X", "Y"}

\* IAlarmAction.bind(alarm, alarm): the configuration of the bound action.
bind(a) == [alarmActionArn |-> "arn:" \o a]

\* Argument lists of the variadic add*Action methods: none, one or several
\* actions.
ActionLists ==
  { << >> } \cup { <<a>> : a \in Actions }
            \cup { <<a, b>> : a \in Actions, b \in Actions }

\* arr.push(...actions.map(a => a.bind(this, this).alarmActionArn))
pushActionArns(arr, actions) ==
  arr \o [i \in 1..Len(actions) |-> bind(actions[i]).alarmActionArn]

\* Faulty variant of addAlarmAction: the list is created only when an action is given.
addAlarmAction_NoInit(arns, actions) ==
  IF arns = Undefined /\ actions = << >> THEN Undefined
  ELSE Def(pushActionArns(IF arns = Undefined THEN << >> ELSE arns.value, actions))

\* Faulty variant of addAlarmAction: the ARNs are added in front, last argument first.
addAlarmAction_Reversed(arns, actions) ==
  LET arr == IF arns = Undefined THEN << >> ELSE arns.value IN
  Def([i \in 1..Len(actions) |-> bind(actions[Len(actions) + 1 - i]).alarmActionArn] \o arr)

\* Alarm.addAlarmAction: the value of alarmActionArns after the call.
addAlarmAction(arns, actions) ==
  LET arr == IF arns = Undefined THEN << >> ELSE arns.value IN
  Def(pushActionArns(arr, actions))

\* Alarm.addInsufficientDataAction
addInsufficientDataAction(arns, actions) ==
  LET arr == IF arns = Undefined THEN << >> ELSE arns.value IN
  Def(pushActionArns(arr, actions))

\* Alarm.addOkAction
addOkAction(arns, actions) ==
  LET arr == IF arns = Undefined THEN << >> ELSE arns.value IN
  Def(pushActionArns(arr, actions))

\* Producers of the three Tokens created in the Alarm constructor.
alarmActions == alarmActionArns
insufficientDataActions == insufficientDataActionArns
okActions == okActionArns

AddAlarmAction ==
  /\ Len(alarmCalls) < MaxAlarmCalls
  /\ \E actions \in ActionLists :
       /\ alarmActionArns' = addAlarmAction(alarmActionArns, actions)
       /\ alarmCalls' = Append(alarmCalls, [kind |-> "alarm", actions |-> actions])
  /\ thrown' = NoError
  /\ UNCHANGED << insufficientDataActionArns, okActionArns, resolutions, scalingVars, topicVars, pipelineVars, subscribeVars, stackVars >>

AddInsufficientDataAction ==
  /\ Len(alarmCalls) < MaxAlarmCalls
  /\ \E actions \in ActionLists :
       /\ insufficientDataActionArns' =
            addInsufficientDataAction(insufficientDataActionArns, actions)
       /\ alarmCalls' = Append(alarmCalls, [kind |-> "insufficientData", actions |-> actions])
  /\ thrown' = NoError
  /\ UNCHANGED << alarmActionArns, okActionArns, resolutions, scalingVars, topicVars, pipelineVars, subscribeVars, stackVars >>

AddOkAction ==
  /\ Len(alarmCalls) < MaxAlarmCalls
  /\ \E actions \in ActionLists :
       /\ okActionArns' = addOkAction(okActionArns, actions)
       /\ alarmCalls' = Append(alarmCalls, [kind |-> "ok", actions |-> actions])
  /\ thrown' = NoError
  /\ UNCHANGED << alarmActionArns, insufficientDataActionArns, resolutions, scalingVars, topicVars, pipelineVars, subscribeVars, stackVars >>

\* ============================================================ resolution ===

\* Faulty variant of Resolve: the producer empties the array it returns.
Resolve_Drain ==
  /\ Len(resolutions) < MaxResolutions
  /\ resolutions' = Append(resolutions,
        [stepAt |-> Len(adjustmentCalls),
         alarmAt |-> Len(alarmCalls),
         stepAdjustments |-> stepAdjustments,
         alarmActions |-> alarmActions,
         insufficientDataActions |-> insufficientDataActions,
         okActions |-> okActions])
  /\ adjustments' = << >>
  /\ thrown' = NoError
  /\ UNCHANGED << adjustmentCalls, alarmVars, topicVars, pipelineVars, subscribeVars, stackVars >>

\* A resolution pass over the Tokens created in the two constructors: invokes
\* each producer and records what it returned.
Resolve ==
  /\ Len(resolutions) < MaxResolutions
  /\ resolutions' = Append(resolutions,
        [stepAt |-> Len(adjustmentCalls),
         alarmAt |-> Len(alarmCalls),
         stepAdjustments |-> stepAdjustments,
         alarmActions |-> alarmActions,
         insufficientDataActions |-> insufficientDataActions,
         okActions |-> okActions])
  /\ thrown' = NoError
  /\ UNCHANGED << scalingVars, alarmVars, topicVars, pipelineVars, subscribeVars, stackVars >>

\* ======================================================== construct tree ===

DuplicateIdError == "There is already a Construct with this name"

HasChild(kids, id) == \E i \in 1..Len(kids) : kids[i].id = id

\* Faulty variant of createChild: a sibling with the same id is replaced.
createChild_Replace(kids, id, type, props) ==
  IF HasChild(kids, id)
  THEN [thrown |-> NoError,
        children |-> [i \in 1..Len(kids) |->
                        IF kids[i].id = id
                        THEN [id |-> id, type |-> type, props |-> props]
                        ELSE kids[i]]]
  ELSE [thrown |-> NoError,
        children |-> Append(kids, [id |-> id, type |-> type, props |-> props])]

\* Construction of a child construct `id` under a scope whose children are
\* `kids`: fails when a sibling already has the id.
createChild(kids, id, type, props) ==
  IF HasChild(kids, id)
  THEN [thrown |-> DuplicateIdError, children |-> kids]
  ELSE [thrown |-> NoError,
        children |-> Append(kids, [id |-> id, type |-> type, props |-> props])]

\* ============================================================ TopicBase ===

\* A topic created in this stack and an imported one.
Topics == {"Topic", "ImportedTopic"}

\* TopicBase.autoCreatePolicy, set by the subclasses.
autoCreatePolicy(t) == t = "Topic"

\* TopicBase.topicArn
topicArn(t) == "arn:aws:sns:" \o t

PolicyStatements == {"s1", "s2"}
SubscriptionNames == {"Sub", "Policy"}
Endpoints == {"endpoint"}
SubscriptionProtocols == {"Email", "Sqs"}

\* Faulty variant of addToResourcePolicy: autoCreatePolicy is not consulted.
addToResourcePolicy_AlwaysCreate(t, pol, kids, statement) ==
  LET c == IF pol = Undefined
           THEN createChild(kids, "Policy", "TopicPolicy", [topics |-> <<topicArn(t)>>])
           ELSE [thrown |-> NoError, children |-> kids] IN
  IF c.thrown # NoError
  THEN [thrown |-> c.thrown, policy |-> pol, children |-> kids]
  ELSE LET p == IF pol = Undefined THEN Def([document |-> << >>]) ELSE pol IN
       [thrown |-> NoError,
        policy |-> Def([document |-> Append(p.value.document, statement)]),
        children |-> c.children]

\* Faulty variant of addToResourcePolicy: the existing policy is not reused.
addToResourcePolicy_NoReuse(t, pol, kids, statement) ==
  LET create == autoCreatePolicy(t)
      c == IF create
           THEN createChild(kids, "Policy", "TopicPolicy", [topics |-> <<topicArn(t)>>])
           ELSE [thrown |-> NoError, children |-> kids] IN
  IF c.thrown # NoError
  THEN [thrown |-> c.thrown, policy |-> pol, children |-> kids]
  ELSE LET p == IF create THEN Def([document |-> << >>]) ELSE pol IN
       [thrown |-> NoError,
        policy |-> IF p = Undefined THEN p
                   ELSE Def([document |-> Append(p.value.document, statement)]),
        children |-> c.children]

\* TopicBase.addToResourcePolicy on topic t whose policy field is `pol` and
\* whose children are `kids`: the error thrown (if any), the policy field and
\* the children after the call.
addToResourcePolicy(t, pol, kids, statement) ==
  LET create == pol = Undefined /\ autoCreatePolicy(t)
      c == IF create
           THEN createChild(kids, "Policy", "TopicPolicy", [topics |-> <<topicArn(t)>>])
           ELSE [thrown |-> NoError, children |-> kids] IN
  IF c.thrown # NoError
  THEN [thrown |-> c.thrown, policy |-> pol, children |-> kids]
  ELSE LET p == IF create THEN Def([document |-> << >>]) ELSE pol IN
       [thrown |-> NoError,
        policy |-> IF p = Undefined THEN p
                   ELSE Def([document |-> Append(p.value.document, statement)]),
        children |-> c.children]

RawMessageDeliveries == {Undefined, Def(TRUE)}

\* Faulty variant of subscribe: nothing is registered on an imported topic.
subscribe_OwnedOnly(t, kids, name, endpoint, protocol, rawMessageDelivery) ==
  IF autoCreatePolicy(t)
  THEN createChild(kids, name, "Subscription",
                   [topic |-> topicArn(t), endpoint |-> endpoint, protocol |-> protocol,
                    rawMessageDelivery |-> rawMessageDelivery])
  ELSE [thrown |-> NoError, children |-> kids]

\* TopicBase.subscribe: a Subscription child of the topic.
subscribe(t, kids, name, endpoint, protocol, rawMessageDelivery) ==
  createChild(kids, name, "Subscription",
              [topic |-> topicArn(t), endpoint |-> endpoint, protocol |-> protocol,
               rawMessageDelivery |-> rawMessageDelivery])

AddToResourcePolicy ==
  /\ \E t \in Topics, statement \in PolicyStatements :
       /\ Len(policyCalls[t]) < MaxPolicyCalls
       /\ LET r == addToResourcePolicy(t, policy[t], children[t], statement) IN
            /\ policy' = [policy EXCEPT ![t] = r.policy]
            /\ children' = [children EXCEPT ![t] = r.children]
            /\ thrown' = r.thrown
       /\ policyCalls' = [policyCalls EXCEPT ![t] = Append(@, statement)]
  /\ UNCHANGED << resolutions, scalingVars, alarmVars, pipelineVars, subscribeVars, stackVars >>

\* subscribe called without the optional rawMessageDelivery argument.
Subscribe ==
  /\ \E t \in Topics, name \in SubscriptionNames,
        endpoint \in Endpoints, protocol \in SubscriptionProtocols,
        rawMessageDelivery \in {Undefined} :
       LET r == subscribe(t, children[t], name, endpoint, protocol,
                          rawMessageDelivery) IN
         /\ children' = [children EXCEPT ![t] = r.children]
         /\ thrown' = r.thrown
  /\ UNCHANGED << policy, policyCalls, resolutions, scalingVars, alarmVars, pipelineVars, subscribeVars, stackVars >>


\* ---------------------------------------------- subscriptions and grants

\* Topics declared in another scope. A topic's node id is the last
\* component of its path, so "Nested/Topic" and "Topic" share the id "Topic".
TopicsElsewhere == {"Nested/Topic"}
AllTopics == Topics \cup TopicsElsewhere

\* this.node.id
nodeId(c) ==
  CASE c = "Nested/Topic" -> "Topic"
    [] OTHER -> c

\* Targets of subscribeQueue and subscribeLambda. The Plain* values are
\* objects that implement the interface without being constructs.
Queues == {"Queue", "OtherQueue", "PlainQueue"}
Functions == {"Function", "PlainFunction"}
isConstruct(x) == x \notin {"PlainQueue", "PlainFunction"}
queueArn(q) == "arn:aws:sqs:" \o q
functionArn(f) == "arn:aws:lambda:" \o f

NotAQueueConstructError == "The supplied Queue object must be an instance of Construct"
NotAFunctionConstructError ==
  "The supplied lambda Function object must be an instance of Construct"
QueueSubscriptionExistsError(t, q) ==
  "A subscription between the topic " \o nodeId(t) \o " and the queue "
    \o nodeId(q) \o " already exists"
FunctionSubscriptionExistsError(t, f) ==
  "A subscription between the topic " \o nodeId(t) \o " and the lambda "
    \o nodeId(f) \o " already exists"
InvalidUrlError == "URL must start with either http:// or https://"

\* The characters of the strings whose prefixes subscribeUrl looks at.
Chars(str) ==
  CASE str = "http://"   -> <<"h", "t", "t", "p", ":", "/", "/">>
    [] str = "https://"  -> <<"h", "t", "t", "p", "s", ":", "/", "/">>
    [] str = "https:"    -> <<"h", "t", "t", "p", "s", ":">>
    [] str = "http://a"  -> <<"h", "t", "t", "p", ":", "/", "/", "a">>
    [] str = "https://a" -> <<"h", "t", "t", "p", "s", ":", "/", "/", "a">>
    [] str = "https:a"   -> <<"h", "t", "t", "p", "s", ":", "a">>
    [] str = "ftp://a"   -> <<"f", "t", "p", ":", "/", "/", "a">>

\* String.prototype.startsWith
startsWith(str, prefix) ==
  LET s == Chars(str)
      p == Chars(prefix) IN
  /\ Len(p) <= Len(s)
  /\ SubSeq(s, 1, Len(p)) = p

Urls == {"http://a", "https://a", "https:a", "ftp://a"}
EmailAddresses == {"a@b"}
EmailOptions == {Undefined, Def([json |-> FALSE]), Def([json |-> TRUE])}

\* TopicBase.subscribeEmail
subscribeEmail(t, kids, name, emailAddress, options) ==
  LET protocol == IF options # Undefined /\ options.value.json
                  THEN "EmailJson" ELSE "Email" IN
  createChild(kids, name, "Subscription",
              [topic |-> topicArn(t), endpoint |-> emailAddress,
               protocol |-> protocol, rawMessageDelivery |-> Undefined])

\* Faulty variant of subscribeUrl: the url is not validated.
subscribeUrl_NoCheck(t, kids, name, url, rawMessageDelivery) ==
  LET protocol == IF startsWith(url, "https:") THEN "Https" ELSE "Http" IN
  createChild(kids, name, "Subscription",
              [topic |-> topicArn(t), endpoint |-> url,
               protocol |-> protocol,
               rawMessageDelivery |-> rawMessageDelivery])

\* TopicBase.subscribeUrl
subscribeUrl(t, kids, name, url, rawMessageDelivery) ==
  IF ~startsWith(url, "http://") /\ ~startsWith(url, "https://")
  THEN [thrown |-> InvalidUrlError, children |-> kids]
  ELSE LET protocol == IF startsWith(url, "https:") THEN "Https" ELSE "Http" IN
       createChild(kids, name, "Subscription",
                   [topic |-> topicArn(t), endpoint |-> url,
                    protocol |-> protocol,
                    rawMessageDelivery |-> rawMessageDelivery])

\* iam.PolicyStatement built by subscribeQueue.
sendMessageStatement(t, q) ==
  [Effect |-> "Allow",
   Resource |-> <<queueArn(q)>>,
   Action |-> <<"sqs:SendMessage">>,
   Principal |-> [Service |-> <<"sns.amazonaws.com">>],
   Condition |-> Def([operator |-> "ArnEquals",
                      key |-> "aws:SourceArn",
                      value |-> topicArn(t)])]

\* queue.addToResourcePolicy: the statement joins the queue's resource policy.
queueAddToResourcePolicy(qpolicy, statement) == Append(qpolicy, statement)

\* lambdaFunction.addPermission: the permission joins the function's.
addPermission(permissions, id, permission) ==
  Append(permissions, [id |-> id, sourceArn |-> permission.sourceArn,
                       principal |-> permission.principal])

\* Faulty variant of subscribeQueue: an existing subscription is not looked for.
subscribeQueue_NoLookup(t, q, kids, qpolicy, rawMessageDelivery) ==
  IF ~isConstruct(q)
  THEN [thrown |-> NotAQueueConstructError, children |-> kids, policy |-> qpolicy]
  ELSE LET subscriptionName == nodeId(t) \o "Subscription"
           c == createChild(kids, subscriptionName, "Subscription",
                            [topic |-> topicArn(t), endpoint |-> queueArn(q),
                             protocol |-> "Sqs",
                             rawMessageDelivery |-> rawMessageDelivery]) IN
       IF c.thrown # NoError
       THEN [thrown |-> c.thrown, children |-> kids, policy |-> qpolicy]
       ELSE [thrown |-> NoError, children |-> c.children,
             policy |-> queueAddToResourcePolicy(qpolicy, sendMessageStatement(t, q))]

\* Faulty variant of subscribeQueue: the statement is not tied to the topic.
subscribeQueue_NoCondition(t, q, kids, qpolicy, rawMessageDelivery) ==
  IF ~isConstruct(q)
  THEN [thrown |-> NotAQueueConstructError, children |-> kids, policy |-> qpolicy]
  ELSE LET subscriptionName == nodeId(t) \o "Subscription" IN
       IF HasChild(kids, subscriptionName)
       THEN [thrown |-> QueueSubscriptionExistsError(t, q),
             children |-> kids, policy |-> qpolicy]
       ELSE LET c == createChild(kids, subscriptionName, "Subscription",
                                 [topic |-> topicArn(t), endpoint |-> queueArn(q),
                                  protocol |-> "Sqs",
                                  rawMessageDelivery |-> rawMessageDelivery]) IN
            IF c.thrown # NoError
            THEN [thrown |-> c.thrown, children |-> kids, policy |-> qpolicy]
            ELSE [thrown |-> NoError, children |-> c.children,
                  policy |-> queueAddToResourcePolicy(
                               qpolicy,
                               [sendMessageStatement(t, q) EXCEPT !.Condition = Undefined])]

\* TopicBase.subscribeQueue on topic t and queue q whose children are `kids`
\* and whose resource policy is `qpolicy`: the error thrown (if any), the
\* queue's children and the queue's resource policy after the call.
subscribeQueue(t, q, kids, qpolicy, rawMessageDelivery) ==
  IF ~isConstruct(q)
  THEN [thrown |-> NotAQueueConstructError, children |-> kids, policy |-> qpolicy]
  ELSE LET subscriptionName == nodeId(t) \o "Subscription" IN
       IF HasChild(kids, subscriptionName)
       THEN [thrown |-> QueueSubscriptionExistsError(t, q),
             children |-> kids, policy |-> qpolicy]
       ELSE LET c == createChild(kids, subscriptionName, "Subscription",
                                 [topic |-> topicArn(t), endpoint |-> queueArn(q),
                                  protocol |-> "Sqs",
                                  rawMessageDelivery |-> rawMessageDelivery]) IN
            IF c.thrown # NoError
            THEN [thrown |-> c.thrown, children |-> kids, policy |-> qpolicy]
            ELSE [thrown |-> NoError, children |-> c.children,
                  policy |-> queueAddToResourcePolicy(qpolicy,
                                                      sendMessageStatement(t, q))]

\* TopicBase.subscribeLambda on topic t and function f whose children are
\* `kids` and whose permissions are `permissions`.
subscribeLambda(t, f, kids, permissions) ==
  IF ~isConstruct(f)
  THEN [thrown |-> NotAFunctionConstructError, children |-> kids,
        permissions |-> permissions]
  ELSE LET subscriptionName == nodeId(t) \o "Subscription" IN
       IF HasChild(kids, subscriptionName)
       THEN [thrown |-> FunctionSubscriptionExistsError(t, f),
             children |-> kids, permissions |-> permissions]
       ELSE LET c == createChild(kids, subscriptionName, "Subscription",
                                 [topic |-> topicArn(t), endpoint |-> functionArn(f),
                                  protocol |-> "Lambda",
                                  rawMessageDelivery |-> Undefined]) IN
            IF c.thrown # NoError
            THEN [thrown |-> c.thrown, children |-> kids, permissions |-> permissions]
            ELSE [thrown |-> NoError, children |-> c.children,
                  permissions |->
                    addPermission(permissions, nodeId(t),
                                  [sourceArn |-> topicArn(t),
                                   principal |-> [Service |-> <<"sns.amazonaws.com">>]])]

\* Principals that can be granted permissions.
Grantees == {"Role", "User"}

\* iam.Grant.addToPrincipalOrResource for a grantee whose principal takes
\* the statement: it joins the principal's policy.
addToPrincipalOrResource(ppolicy, actions, resourceArns) ==
  Append(ppolicy, [Effect |-> "Allow", Action |-> actions, Resource |-> resourceArns])

\* TopicBase.grantPublish
grantPublish(t, ppolicy) ==
  addToPrincipalOrResource(ppolicy, <<"sns:Publish">>, <<topicArn(t)>>)

\* ------------------------------------------------------- PublishToTopic

Messages == {"hello"}
Subjects == {Undefined, Def("subject")}
OptionalBooleans == {Undefined, Def(FALSE), Def(TRUE)}

\* PublishToTopicProps
PublishToTopicProps ==
  [message : Messages, messagePerSubscriptionType : OptionalBooleans,
   subject : Subjects]

\* sfn.FieldUtils.renderObject on an object of literal values: the entries
\* whose value is undefined are not rendered.
renderObject(obj) ==
  [k \in { key \in DOMAIN obj : obj[key] # Undefined } |-> obj[k].value]

\* Faulty variant of bind: the message structure is always given.
publishToTopicBind_AlwaysJson(t, props) ==
  LET rendered ==
        renderObject([Message |-> Def(props.message),
                      MessageStructure |-> Def("json"),
                      Subject |-> props.subject]) IN
  [resourceArn |-> "arn:aws:states:::sns:publish",
   policyStatements |-> << [Effect |-> "Allow",
                            Action |-> <<"sns:Publish">>,
                            Resource |-> <<topicArn(t)>>] >>,
   parameters |-> [k \in {"TopicArn"} \cup DOMAIN rendered |->
                     IF k \in DOMAIN rendered THEN rendered[k] ELSE topicArn(t)]]

\* PublishToTopic.bind for a task on topic t.
publishToTopicBind(t, props) ==
  LET truthy == props.messagePerSubscriptionType # Undefined
                /\ props.messagePerSubscriptionType.value
      rendered ==
        renderObject([Message |-> Def(props.message),
                      MessageStructure |-> IF truthy THEN Def("json") ELSE Undefined,
                      Subject |-> props.subject]) IN
  [resourceArn |-> "arn:aws:states:::sns:publish",
   policyStatements |-> << [Effect |-> "Allow",
                            Action |-> <<"sns:Publish">>,
                            Resource |-> <<topicArn(t)>>] >>,
   parameters |-> [k \in {"TopicArn"} \cup DOMAIN rendered |->
                     IF k \in DOMAIN rendered THEN rendered[k] ELSE topicArn(t)]]

\* ------------------------------------- calls on topics, kept in a call log

MaxTopicCallsLeft == Len(topicCalls) < MaxTopicCalls

SubscribeCall ==
  /\ MaxTopicCallsLeft
  /\ \E t \in Topics, name \in SubscriptionNames,
        endpoint \in Endpoints, protocol \in SubscriptionProtocols,
        rawMessageDelivery \in RawMessageDeliveries :
       LET r == subscribe(t, children[t], name, endpoint, protocol,
                          rawMessageDelivery) IN
         /\ children' = [children EXCEPT ![t] = r.children]
         /\ thrown' = r.thrown
         /\ topicCalls' = Append(topicCalls,
                                 [op |-> "subscribe", topic |-> t, name |-> name,
                                  endpoint |-> endpoint, protocol |-> protocol,
                                  rawMessageDelivery |-> rawMessageDelivery])
  /\ UNCHANGED << policy, policyCalls, queueChildren, queuePolicy, functionChildren,
                  functionPermissions, principalPolicy, taskConfig,
                  resolutions, scalingVars, alarmVars, pipelineVars, stackVars >>

SubscribeEmail ==
  /\ MaxTopicCallsLeft
  /\ \E t \in Topics, name \in SubscriptionNames,
        emailAddress \in EmailAddresses, options \in EmailOptions :
       LET r == subscribeEmail(t, children[t], name, emailAddress, options) IN
         /\ children' = [children EXCEPT ![t] = r.children]
         /\ thrown' = r.thrown
         /\ topicCalls' = Append(topicCalls,
                                 [op |-> "subscribeEmail", topic |-> t, name |-> name,
                                  emailAddress |-> emailAddress, options |-> options])
  /\ UNCHANGED << policy, policyCalls, queueChildren, queuePolicy, functionChildren,
                  functionPermissions, principalPolicy, taskConfig,
                  resolutions, scalingVars, alarmVars, pipelineVars, stackVars >>

SubscribeUrl ==
  /\ MaxTopicCallsLeft
  /\ \E t \in Topics, name \in SubscriptionNames, url \in Urls,
        rawMessageDelivery \in RawMessageDeliveries :
       LET r == subscribeUrl(t, children[t], name, url, rawMessageDelivery) IN
         /\ children' = [children EXCEPT ![t] = r.children]
         /\ thrown' = r.thrown
         /\ topicCalls' = Append(topicCalls,
                                 [op |-> "subscribeUrl", topic |-> t, name |-> name,
                                  url |-> url,
                                  rawMessageDelivery |-> rawMessageDelivery])
  /\ UNCHANGED << policy, policyCalls, queueChildren, queuePolicy, functionChildren,
                  functionPermissions, principalPolicy, taskConfig,
                  resolutions, scalingVars, alarmVars, pipelineVars, stackVars >>

SubscribeQueue ==
  /\ MaxTopicCallsLeft
  /\ \E t \in AllTopics, q \in Queues,
        rawMessageDelivery \in RawMessageDeliveries :
       LET r == subscribeQueue(t, q, queueChildren[q], queuePolicy[q],
                               rawMessageDelivery) IN
         /\ queueChildren' = [queueChildren EXCEPT ![q] = r.children]
         /\ queuePolicy' = [queuePolicy EXCEPT ![q] = r.policy]
         /\ thrown' = r.thrown
         /\ topicCalls' = Append(topicCalls,
                                 [op |-> "subscribeQueue", topic |-> t, queue |-> q,
                                  rawMessageDelivery |-> rawMessageDelivery])
  /\ UNCHANGED << topicVars, functionChildren, functionPermissions,
                  principalPolicy, taskConfig,
                  resolutions, scalingVars, alarmVars, pipelineVars, stackVars >>

SubscribeLambda ==
  /\ MaxTopicCallsLeft
  /\ \E t \in AllTopics, f \in Functions :
       LET r == subscribeLambda(t, f, functionChildren[f], functionPermissions[f]) IN
         /\ functionChildren' = [functionChildren EXCEPT ![f] = r.children]
         /\ functionPermissions' = [functionPermissions EXCEPT ![f] = r.permissions]
         /\ thrown' = r.thrown
         /\ topicCalls' = Append(topicCalls,
                                 [op |-> "subscribeLambda", topic |-> t,
                                  lambdaFunction |-> f])
  /\ UNCHANGED << topicVars, queueChildren, queuePolicy,
                  principalPolicy, taskConfig,
                  resolutions, scalingVars, alarmVars, pipelineVars, stackVars >>

GrantPublish ==
  /\ MaxTopicCallsLeft
  /\ \E t \in Topics, grantee \in Grantees :
       /\ principalPolicy' =
            [principalPolicy EXCEPT ![grantee] = grantPublish(t, @)]
       /\ thrown' = NoError
       /\ topicCalls' = Append(topicCalls,
                               [op |-> "grantPublish", topic |-> t,
                                grantee |-> grantee])
  /\ UNCHANGED << topicVars, queueChildren, queuePolicy, functionChildren,
                  functionPermissions, taskConfig,
                  resolutions, scalingVars, alarmVars, pipelineVars, stackVars >>

Bind ==
  /\ MaxTopicCallsLeft
  /\ \E t \in Topics, props \in PublishToTopicProps :
       /\ taskConfig' = Def(publishToTopicBind(t, props))
       /\ thrown' = NoError
       /\ topicCalls' = Append(topicCalls,
                               [op |-> "bind", topic |-> t, props |-> props])
  /\ UNCHANGED << topicVars, queueChildren, queuePolicy, functionChildren,
                  functionPermissions, principalPolicy,
                  resolutions, scalingVars, alarmVars, pipelineVars, stackVars >>

\* ------------------------------------- Alarm construction and import

\* enum ComparisonOperator
ComparisonOperators ==
  {"GreaterThanOrEqualToThreshold", "GreaterThanThreshold",
   "LessThanThreshold", "LessThanOrEqualToThreshold"}

OPERATOR_SYMBOLS(operator) ==
  CASE operator = "GreaterThanOrEqualToThreshold" -> ">="
    [] operator = "GreaterThanThreshold" -> ">"
    [] operator = "LessThanThreshold" -> "<"
    [] operator = "LessThanOrEqualToThreshold" -> ">="

\* describePeriod, for a number of seconds that is below 60 or a multiple of 60.
describePeriod(seconds) ==
  IF seconds = 60 THEN "1 minute"
  ELSE IF seconds = 1 THEN "1 second"
  ELSE IF seconds > 60 THEN ToString(seconds \div 60) \o " minutes"
  ELSE ToString(seconds) \o " seconds"

\* Inputs of the Alarm constructor.
AlarmIds == {"Alarm", "OtherAlarm"}
Metrics ==
  {[label |-> Undefined, metricName |-> "Errors", periodSec |-> 60],
   [label |-> Def("Failures"), metricName |-> "Errors", periodSec |-> 1]}
AlarmProps ==
  [metric : Metrics,
   comparisonOperator : {Undefined} \cup { Def(o) : o \in ComparisonOperators },
   threshold : {100},
   evaluationPeriods : {1, 2}]

\* The label of the annotation made in the Alarm constructor.
annotationLabel(props, comparisonOperator) ==
  (IF props.metric.label # Undefined
   THEN props.metric.label.value ELSE props.metric.metricName)
    \o " " \o OPERATOR_SYMBOLS(comparisonOperator)
    \o " " \o ToString(props.threshold)
    \o " for " \o ToString(props.evaluationPeriods)
    \o " datapoints within "
    \o describePeriod(props.evaluationPeriods * props.metric.periodSec)

\* new Alarm(scope, id, props) under a scope whose children are `kids`: the
\* construct is registered and its fields are set.
newAlarm(kids, id, props) ==
  LET comparisonOperator ==
        IF props.comparisonOperator # Undefined
        THEN props.comparisonOperator.value
        ELSE "GreaterThanOrEqualToThreshold" IN
  createChild(kids, id, "Alarm",
              [comparisonOperator |-> comparisonOperator,
               metric |-> props.metric,
               annotation |-> [label |-> annotationLabel(props, comparisonOperator),
                               value |-> props.threshold]])

\* Alarm.toAnnotation
toAnnotation(alarm) == alarm.props.annotation

\* The ARNs handed to fromAlarmArn, and their ':'-separated components.
AlarmArns ==
  {"arn:aws:cloudwatch:us-east-1:123456789012:alarm:MyAlarm",
   "arn:aws:cloudwatch:eu-west-1:123456789012:alarm:Other",
   "arn:aws:cloudwatch:us-east-1:123456789012:alarm"}

Split(arn) ==
  CASE arn = "arn:aws:cloudwatch:us-east-1:123456789012:alarm:MyAlarm" ->
         <<"arn", "aws", "cloudwatch", "us-east-1", "123456789012", "alarm", "MyAlarm">>
    [] arn = "arn:aws:cloudwatch:eu-west-1:123456789012:alarm:Other" ->
         <<"arn", "aws", "cloudwatch", "eu-west-1", "123456789012", "alarm", "Other">>
    [] arn = "arn:aws:cloudwatch:us-east-1:123456789012:alarm" ->
         <<"arn", "aws", "cloudwatch", "us-east-1", "123456789012", "alarm">>

\* stack.parseArn(arn, ':'): the components of an ARN whose resource and
\* resource name are separated by ':'.
parseArn(arn) ==
  LET components == Split(arn) IN
  [partition |-> components[2], service |-> components[3],
   region |-> components[4], account |-> components[5],
   resource |-> components[6],
   resourceName |-> IF Len(components) > 6 THEN Def(components[7]) ELSE Undefined]

\* Faulty variant of fromAlarmArn: the name is not parsed out of the ARN.
fromAlarmArn_NameIsArn(kids, id, alarmArn) ==
  createChild(kids, id, "Import",
              [alarmArn |-> alarmArn, alarmName |-> Def(alarmArn)])

\* Alarm.fromAlarmArn(scope, id, alarmArn) under a scope whose children are `kids`.
fromAlarmArn(kids, id, alarmArn) ==
  createChild(kids, id, "Import",
              [alarmArn |-> alarmArn, alarmName |-> parseArn(alarmArn).resourceName])

NewAlarm ==
  /\ Len(stackCalls) < MaxStackCalls
  /\ \E id \in AlarmIds, props \in AlarmProps :
       LET r == newAlarm(stackChildren, id, props) IN
         /\ stackChildren' = r.children
         /\ thrown' = r.thrown
         /\ stackCalls' = Append(stackCalls,
                                 [op |-> "new Alarm", id |-> id, props |-> props])
  /\ UNCHANGED << resolutions, scalingVars, alarmVars, topicVars, pipelineVars,
                  subscribeVars >>

FromAlarmArn ==
  /\ Len(stackCalls) < MaxStackCalls
  /\ \E id \in AlarmIds, alarmArn \in AlarmArns :
       LET r == fromAlarmArn(stackChildren, id, alarmArn) IN
         /\ stackChildren' = r.children
         /\ thrown' = r.thrown
         /\ stackCalls' = Append(stackCalls,
                                 [op |-> "fromAlarmArn", id |-> id,
                                  alarmArn |-> alarmArn])
  /\ UNCHANGED << resolutions, scalingVars, alarmVars, topicVars, pipelineVars,
                  subscribeVars >>

\* ================================================ pipeline role policy ===

ActionKinds == {"CreateReplaceChangeSet", "ExecuteChangeSet"}
ActionNames == {"ActionA", "ActionB", "ActionC"}
ChangeSetNames == {"MyChangeSet", "OtherChangeSet"}
StackNames == {"StackA", "StackB"}

\* The pipeline actions a stage can be given.
PipelineActions ==
  [kind : ActionKinds, actionName : ActionNames,
   changeSetName : ChangeSetNames, stackName : StackNames]

\* _stackArn(stackName, scope)
stackArn(stackName) == "arn:cloudformation:stack/" \o stackName \o "/*"

\* The ARN of the deployment role created for an action under its scope.
deploymentRoleArn(actionName) == "Pipeline/TestStage/" \o actionName \o "/Role.Arn"

changeSetCondition(operator, changeSetName) ==
  Def([operator |-> operator,
       key |-> "cloudformation:ChangeSetName",
       value |-> changeSetName])

\* The permissions an action asks of the pipeline role when it is attached:
\* a statement template {Effect, Action, Condition} and the resource it
\* needs under that template.
permissionsOf(action) ==
  IF action.kind = "CreateReplaceChangeSet"
  THEN << [template |-> [Effect |-> "Allow",
                         Action |-> <<"iam:PassRole">>,
                         Condition |-> Undefined],
           resource |-> deploymentRoleArn(action.actionName)],
          [template |-> [Effect |-> "Allow",
                         Action |-> <<"cloudformation:CreateChangeSet",
                                      "cloudformation:DeleteChangeSet",
                                      "cloudformation:DescribeChangeSet",
                                      "cloudformation:DescribeStacks">>,
                         Condition |-> changeSetCondition("StringEqualsIfExists",
                                                          action.changeSetName)],
           resource |-> stackArn(action.stackName)] >>
  ELSE << [template |-> [Effect |-> "Allow",
                         Action |-> <<"cloudformation:ExecuteChangeSet">>,
                         Condition |-> changeSetCondition("StringEquals",
                                                          action.changeSetName)],
           resource |-> stackArn(action.stackName)] >>

\* RoleDouble.addToPolicy: records the statement.
addToPolicy(stmts, statement) == Append(stmts, statement)

StatementKey(st) ==
  [Effect |-> st.Effect, Action |-> st.Action, Condition |-> st.Condition]

Min(S) == CHOOSE x \in S : \A y \in S : x <= y

Contains(seq, x) == \E i \in 1..Len(seq) : seq[i] = x

\* Faulty variant of grant: every permission gets a statement of its own.
grant_NoMerge(stmts, template, resource) ==
  addToPolicy(stmts, [Effect |-> template.Effect, Action |-> template.Action,
                      Condition |-> template.Condition, Resource |-> <<resource>>])

\* The merge step of the policy-attachment path: a permission whose
\* {Effect, Action, Condition} equals that of a statement already on the role
\* adds its resource to that statement; otherwise a new statement is added.
grant(stmts, template, resource) ==
  LET same == { i \in 1..Len(stmts) : StatementKey(stmts[i]) = template } IN
  IF same = {}
  THEN addToPolicy(stmts, [Effect |-> template.Effect, Action |-> template.Action,
                           Condition |-> template.Condition, Resource |-> <<resource>>])
  ELSE LET i == Min(same) IN
       IF Contains(stmts[i].Resource, resource) THEN stmts
       ELSE [stmts EXCEPT ![i].Resource = Append(@, resource)]

RECURSIVE grantAll(_, _)
grantAll(stmts, permissions) ==
  IF permissions = << >> THEN stmts
  ELSE grantAll(grant(stmts, Head(permissions).template, Head(permissions).resource),
                Tail(permissions))

\* StageDouble: each action gets a scope named after it under the stage and
\* is attached to the pipeline with the pipeline's role.
AttachAction ==
  /\ \E action \in PipelineActions :
       IF \E i \in 1..Len(attachedActions) :
            attachedActions[i].actionName = action.actionName
       THEN /\ thrown' = DuplicateIdError
            /\ UNCHANGED << statements, attachedActions >>
       ELSE /\ statements' = grantAll(statements, permissionsOf(action))
            /\ attachedActions' = Append(attachedActions, action)
            /\ thrown' = NoError
  /\ UNCHANGED << resolutions, scalingVars, alarmVars, topicVars, subscribeVars, stackVars >>

\* ======================================================= specifications ===

Init ==
  /\ adjustments = << >>
  /\ adjustmentCalls = << >>
  /\ alarmActionArns = Undefined
  /\ insufficientDataActionArns = Undefined
  /\ okActionArns = Undefined
  /\ alarmCalls = << >>
  /\ resolutions = << >>
  /\ policy = [t \in Topics |-> Undefined]
  /\ children = [t \in Topics |-> << >>]
  /\ policyCalls = [t \in Topics |-> << >>]
  /\ statements = << >>
  /\ attachedActions = << >>
  /\ thrown = NoError
  /\ topicCalls = << >>
  /\ queueChildren = [q \in Queues |-> << >>]
  /\ queuePolicy = [q \in Queues |-> << >>]
  /\ functionChildren = [f \in Functions |-> << >>]
  /\ functionPermissions = [f \in Functions |-> << >>]
  /\ principalPolicy = [g \in Grantees |-> << >>]
  /\ taskConfig = Undefined
  /\ stackChildren = << >>
  /\ stackCalls = << >>

ScalingNext == AddAdjustment \/ Resolve
SpecScaling == Init /\ [][ScalingNext]_vars

AlarmNext ==
  \/ AddAlarmAction
  \/ AddInsufficientDataAction
  \/ AddOkAction
  \/ Resolve
SpecAlarm == Init /\ [][AlarmNext]_vars

TopicNext == AddToResourcePolicy \/ Subscribe
SpecTopic == Init /\ [][TopicNext]_vars

SubscribeNext ==
  \/ SubscribeCall
  \/ SubscribeEmail
  \/ SubscribeUrl
  \/ SubscribeQueue
  \/ SubscribeLambda
  \/ GrantPublish
  \/ Bind
SpecSubscribe == Init /\ [][SubscribeNext]_vars

StackNext == NewAlarm \/ FromAlarmArn
SpecStack == Init /\ [][StackNext]_vars

PipelineNext == AttachAction
SpecPipeline == Init /\ [][PipelineNext]_vars

\* Both components under one shared budget of mutating calls.
TokenBudgetLeft == Len(adjustmentCalls) + Len(alarmCalls) < MaxTokenCalls
TokensAddAdjustment == TokenBudgetLeft /\ AddAdjustment
TokensAddAlarmAction == TokenBudgetLeft /\ AddAlarmAction
TokensAddInsufficientDataAction == TokenBudgetLeft /\ AddInsufficientDataAction
TokensAddOkAction == TokenBudgetLeft /\ AddOkAction

TokensNext ==
  \/ TokensAddAdjustment
  \/ TokensAddAlarmAction
  \/ TokensAddInsufficientDataAction
  \/ TokensAddOkAction
  \/ Resolve
SpecTokens == Init /\ [][TokensNext]_vars

\* =============================================================== claims ===

IsBoundedTier(t) == ~(t.lowerBound = Undefined /\ t.upperBound = Undefined)

\* The entries expected after the given addAdjustment calls: one per call
\* that had a bound, in call order.
ExpectedAdjustments(calls) ==
  LET ok == SelectSeq(calls, IsBoundedTier) IN
  [i \in 1..Len(ok) |->
     [metricIntervalLowerBound |-> ok[i].lowerBound,
      metricIntervalUpperBound |-> ok[i].upperBound,
      scalingAdjustment |-> ok[i].adjustment]]

\* C1: addAdjustment with neither lowerBound nor upperBound throws the
\* "at least one of lowerBound or upperBound" error and leaves the
\* adjustments sequence as it was; with a bound set the call succeeds and
\* adds one entry.
C1_InvalidTierRejected ==
  [][ adjustmentCalls' # adjustmentCalls =>
        LET t == Last(adjustmentCalls') IN
          IF t.lowerBound = Undefined /\ t.upperBound = Undefined
          THEN thrown' = InvalidTierError /\ adjustments' = adjustments
          ELSE thrown' = NoError /\ Len(adjustments') = Len(adjustments) + 1 ]_vars

C1_Witness ==
  /\ thrown = InvalidTierError
  /\ Len(adjustments) > 0
  /\ Len(adjustmentCalls) > Len(adjustments)

\* C2: the stepAdjustments Token resolves to exactly one entry per
\* successful addAdjustment call made before the resolution, in call order,
\* whatever the bound values are.
C2_ResolvedInCallOrder ==
  /\ stepAdjustments = Def(ExpectedAdjustments(adjustmentCalls))
  /\ \A i \in 1..Len(resolutions) :
       resolutions[i].stepAdjustments =
         Def(ExpectedAdjustments(SubSeq(adjustmentCalls, 1, resolutions[i].stepAt)))

C2_Witness ==
  \E i \in 1..Len(resolutions) :
    resolutions[i].stepAdjustments =
      Def(<< [metricIntervalLowerBound |-> Undefined,
              metricIntervalUpperBound |-> Def(10),
              scalingAdjustment |-> 1],
             [metricIntervalLowerBound |-> Def(10),
              metricIntervalUpperBound |-> Undefined,
              scalingAdjustment |-> -1] >>)

AlarmKinds == {"alarm", "insufficientData", "ok"}

\* The ARNs expected in the list of the given kind after the given calls:
\* call order, then argument order.
RECURSIVE ExpectedArns(_, _)
ExpectedArns(calls, kind) ==
  IF calls = << >> THEN << >>
  ELSE LET h == Head(calls) IN
       (IF h.kind = kind
        THEN [i \in 1..Len(h.actions) |-> bind(h.actions[i]).alarmActionArn]
        ELSE << >>) \o ExpectedArns(Tail(calls), kind)

Called(calls, kind) == \E i \in 1..Len(calls) : calls[i].kind = kind

ListOf(r, kind) ==
  CASE kind = "alarm" -> r.alarmActions
    [] kind = "insufficientData" -> r.insufficientDataActions
    [] kind = "ok" -> r.okActions

CurrentLists ==
  [alarmActions |-> alarmActions,
   insufficientDataActions |-> insufficientDataActions,
   okActions |-> okActions]

\* C3: each resolved action list holds the ARN bound for every action passed
\* to its add operation, in call order and then argument order.
C3_AlarmActionsInOrder ==
  /\ \A kind \in AlarmKinds :
       ListOf(CurrentLists, kind) # Undefined =>
         ListOf(CurrentLists, kind).value = ExpectedArns(alarmCalls, kind)
  /\ \A i \in 1..Len(resolutions) : \A kind \in AlarmKinds :
       LET r == resolutions[i]
           e == ExpectedArns(SubSeq(alarmCalls, 1, r.alarmAt), kind) IN
         /\ ListOf(r, kind) # Undefined => ListOf(r, kind).value = e
         /\ e # << >> => ListOf(r, kind) # Undefined

C3_Witness ==
  /\ alarmCalls = << [kind |-> "alarm", actions |-> <<"X">>],
                     [kind |-> "alarm", actions |-> <<"Y">>] >>
  /\ \E i \in 1..Len(resolutions) :
       resolutions[i].alarmActions = Def(<<"arn:X", "arn:Y">>)

\* C4: each of the three action lists is undefined exactly until the first
\* call of its own add operation (even a call with no actions), so a list
\* that was never configured resolves as absent and a configured one as a
\* (possibly empty) sequence.
C4_AbsentUntilFirstCall ==
  /\ \A kind \in AlarmKinds :
       (ListOf(CurrentLists, kind) = Undefined) <=> ~Called(alarmCalls, kind)
  /\ \A i \in 1..Len(resolutions) : \A kind \in AlarmKinds :
       LET r == resolutions[i] IN
         (ListOf(r, kind) = Undefined) <=> ~Called(SubSeq(alarmCalls, 1, r.alarmAt), kind)

C4_Witness ==
  \E i \in 1..Len(resolutions) :
    /\ resolutions[i].alarmActions = Def(<< >>)
    /\ resolutions[i].okActions = Undefined

\* C5: a StepScalingAction on which addAdjustment was never called resolves
\* its step adjustments as absent, not as an empty sequence.
C5_NeverConfiguredIsAbsent ==
  \A i \in 1..Len(resolutions) :
    resolutions[i].stepAt = 0 => resolutions[i].stepAdjustments = Undefined

\* C8: once a Token reading a captured collection has been resolved, a
\* further add call on that collection is flagged with an error and does
\* not change the collection.
C8_MutationAfterResolveFlagged ==
  [][ /\ (Len(resolutions) > 0 /\ adjustmentCalls' # adjustmentCalls)
           => (thrown' # NoError /\ adjustments' = adjustments)
      /\ (Len(resolutions) > 0 /\ alarmCalls' # alarmCalls)
           => (thrown' # NoError /\ CurrentLists' = CurrentLists) ]_vars

\* C9: two resolutions of the same Token with no add call between them
\* return equal values, and a resolution does not change the collection.
C9_ResolveIdempotent ==
  /\ [](\A i, j \in 1..Len(resolutions) :
          /\ resolutions[i].stepAt = resolutions[j].stepAt
               => resolutions[i].stepAdjustments = resolutions[j].stepAdjustments
          /\ resolutions[i].alarmAt = resolutions[j].alarmAt
               => \A kind \in AlarmKinds :
                    ListOf(resolutions[i], kind) = ListOf(resolutions[j], kind))
  /\ [][ resolutions' # resolutions
           => (adjustments' = adjustments /\ CurrentLists' = CurrentLists) ]_vars

C9_Witness ==
  /\ Len(resolutions) = 2
  /\ resolutions[1].stepAt = resolutions[2].stepAt
  /\ resolutions[1].alarmAt = resolutions[2].alarmAt
  /\ resolutions[1].stepAdjustments.value # << >>
  /\ resolutions[1].alarmActions # Undefined

ChildrenOfType(t, type) == { i \in 1..Len(children[t]) : children[t][i].type = type }
ChildrenWithId(t, id) == { i \in 1..Len(children[t]) : children[t][i].id = id }

\* C6: on an imported topic addToResourcePolicy is a no-op: no TopicPolicy
\* child ever exists, the policy stays unset, and a call changes neither the
\* topic's children nor its policy and throws nothing.
C6_ImportedPolicyNoOp ==
  /\ [](\A t \in Topics : ~autoCreatePolicy(t) =>
          /\ policy[t] = Undefined
          /\ ChildrenOfType(t, "TopicPolicy") = {})
  /\ [][\A t \in Topics :
          (~autoCreatePolicy(t) /\ policyCalls'[t] # policyCalls[t]) =>
            /\ children' = children
            /\ policy' = policy
            /\ thrown' = NoError]_vars

C6_Witness ==
  /\ Len(policyCalls["ImportedTopic"]) >= 2
  /\ policy["ImportedTopic"] = Undefined
  /\ Len(children["ImportedTopic"]) = 1
  /\ thrown = NoError

\* C7 as stated: on a live topic no policy exists before the first
\* addToResourcePolicy call, and after n >= 1 calls the topic has exactly one
\* 'Policy' child and the policy document holds the n statements in call
\* order.
C7_PolicyCreatedOnceOriginal ==
  \A t \in Topics : autoCreatePolicy(t) =>
    IF Len(policyCalls[t]) = 0
    THEN policy[t] = Undefined /\ ChildrenOfType(t, "TopicPolicy") = {}
    ELSE /\ Cardinality(ChildrenWithId(t, "Policy")) = 1
         /\ policy[t] # Undefined
         /\ policy[t].value.document = policyCalls[t]

\* The id 'Policy' is held by a child of the topic that is not its policy.
PolicyIdTaken(t) ==
  \E i \in ChildrenWithId(t, "Policy") : children[t][i].type # "TopicPolicy"

\* C7 (amended): on a live topic no policy exists before the first
\* addToResourcePolicy call; after n >= 1 calls, if no other child of the
\* topic holds the id 'Policy', the topic has exactly one 'Policy' child,
\* the TopicPolicy, whose document holds the n statements in call order; if
\* another child holds the id, every call fails and no policy is created.
C7_PolicyCreatedOnce ==
  /\ [](\A t \in Topics : autoCreatePolicy(t) =>
          /\ Cardinality(ChildrenWithId(t, "Policy")) <= 1
          /\ IF Len(policyCalls[t]) = 0 \/ PolicyIdTaken(t)
             THEN policy[t] = Undefined /\ ChildrenOfType(t, "TopicPolicy") = {}
             ELSE /\ Cardinality(ChildrenWithId(t, "Policy")) = 1
                  /\ Cardinality(ChildrenOfType(t, "TopicPolicy")) = 1
                  /\ policy[t] # Undefined
                  /\ policy[t].value.document = policyCalls[t])
  /\ [][\A t \in Topics :
          (autoCreatePolicy(t) /\ policyCalls'[t] # policyCalls[t]) =>
            IF PolicyIdTaken(t)
            THEN thrown' = DuplicateIdError /\ children' = children /\ policy' = policy
            ELSE thrown' = NoError]_vars

C7_Witness ==
  /\ policyCalls["Topic"] = <<"s2", "s1">>
  /\ policy["Topic"] = Def([document |-> <<"s2", "s1">>])
  /\ Cardinality(ChildrenWithId("Topic", "Policy")) = 1
  /\ Len(children["Topic"]) = 2

RECURSIVE AllPermissions(_)
AllPermissions(actions) ==
  IF actions = << >> THEN << >>
  ELSE permissionsOf(Head(actions)) \o AllPermissions(Tail(actions))

\* The resources asked under the given template, in attachment order, each
\* one once.
RECURSIVE ResourceUnion(_, _, _)
ResourceUnion(permissions, template, acc) ==
  IF permissions = << >> THEN acc
  ELSE LET h == Head(permissions) IN
       ResourceUnion(Tail(permissions), template,
                     IF h.template = template /\ ~Contains(acc, h.resource)
                     THEN Append(acc, h.resource) ELSE acc)

\* C10: for every {effect, actions, condition} some attached action needs,
\* the role holds a single statement, whose Resource list is the union of
\* the resources needed under it, in attachment order; the role holds no
\* other statement.
C10_SingleStatementPerKey ==
  LET needs == AllPermissions(attachedActions) IN
  /\ \A n \in 1..Len(needs) :
       LET same == { j \in 1..Len(statements) :
                       StatementKey(statements[j]) = needs[n].template } IN
       /\ Cardinality(same) = 1
       /\ \A j \in same :
            statements[j].Resource = ResourceUnion(needs, needs[n].template, << >>)
  /\ \A j \in 1..Len(statements) :
       \E n \in 1..Len(needs) : StatementKey(statements[j]) = needs[n].template

C10_Witness ==
  /\ attachedActions =
       << [kind |-> "CreateReplaceChangeSet", actionName |-> "ActionA",
           changeSetName |-> "MyChangeSet", stackName |-> "StackA"],
          [kind |-> "CreateReplaceChangeSet", actionName |-> "ActionB",
           changeSetName |-> "MyChangeSet", stackName |-> "StackB"] >>
  /\ statements =
       << [Effect |-> "Allow",
           Action |-> <<"iam:PassRole">>,
           Condition |-> Undefined,
           Resource |-> <<"Pipeline/TestStage/ActionA/Role.Arn",
                          "Pipeline/TestStage/ActionB/Role.Arn">>],
          [Effect |-> "Allow",
           Action |-> <<"cloudformation:CreateChangeSet",
                        "cloudformation:DeleteChangeSet",
                        "cloudformation:DescribeChangeSet",
                        "cloudformation:DescribeStacks">>,
           Condition |-> Def([operator |-> "StringEqualsIfExists",
                              key |-> "cloudformation:ChangeSetName",
                              value |-> "MyChangeSet"]),
           Resource |-> <<"arn:cloudformation:stack/StackA/*",
                          "arn:cloudformation:stack/StackB/*">>] >>

\* ------------------------------------------------ subscriptions (claims)

\* The step is a call of `op`, entered last in the call log.
IsTopicCall(op) ==
  /\ Len(topicCalls') = Len(topicCalls) + 1
  /\ Last(topicCalls').op = op

Subscription(t, endpoint, protocol, rawMessageDelivery) ==
  [topic |-> topicArn(t), endpoint |-> endpoint, protocol |-> protocol,
   rawMessageDelivery |-> rawMessageDelivery]

\* The children of topic t grow by one Subscription, the other topics keep theirs.
OneSubscriptionAdded(t, name, props) ==
  /\ children'[t] = Append(children[t],
                           [id |-> name, type |-> "Subscription", props |-> props])
  /\ \A u \in Topics \ {t} : children'[u] = children[u]

\* C11: subscribeUrl rejects, with the error 'URL must start with either
\* http:// or https://' and without creating a Subscription, every url that
\* starts with neither 'http://' nor 'https://'; for an accepted url (under a
\* name no sibling has) it creates one Subscription under the topic whose
\* protocol is Https exactly when the url starts with 'https://' and Http
\* otherwise, with the url as its endpoint.
C11_UrlValidatedAndProtocolChosen ==
  [][ IsTopicCall("subscribeUrl") =>
        LET call == Last(topicCalls')
            t == call.topic
            accepted == startsWith(call.url, "http://") \/ startsWith(call.url, "https://")
            protocol == IF startsWith(call.url, "https://") THEN "Https" ELSE "Http" IN
        IF ~accepted
        THEN thrown' = InvalidUrlError /\ children' = children
        ELSE thrown' # InvalidUrlError
             /\ (~HasChild(children[t], call.name) =>
                   /\ thrown' = NoError
                   /\ OneSubscriptionAdded(t, call.name,
                                           Subscription(t, call.url, protocol,
                                                        call.rawMessageDelivery))) ]_vars

\* An https url was accepted as an Https subscription and then a url that
\* only starts with 'https:' was rejected.
C11_Witness ==
  /\ Len(topicCalls) = 2
  /\ topicCalls[1].op = "subscribeUrl" /\ topicCalls[1].url = "https://a"
  /\ topicCalls[2].op = "subscribeUrl" /\ topicCalls[2].url = "https:a"
  /\ topicCalls[1].topic = "Topic" /\ topicCalls[2].topic = "Topic"
  /\ thrown = InvalidUrlError
  /\ Len(children["Topic"]) = 1
  /\ children["Topic"][1].props.protocol = "Https"
  /\ children["Topic"][1].props.endpoint = "https://a"

\* Topic t has a Subscription among the children of queue q.
SubscribedToQueue(t, q) ==
  \E i \in 1..Len(queueChildren[q]) :
    /\ queueChildren[q][i].type = "Subscription"
    /\ queueChildren[q][i].props.topic = topicArn(t)

\* C12: subscribing the same queue to the same topic a second time fails with
\* 'A subscription between the topic ... and the queue ... already exists',
\* creates no second Subscription and adds no second statement to the queue's
\* resource policy; the first call's subscription and statement stay as they were.
C12_SecondQueueSubscriptionRejected ==
  [][ (IsTopicCall("subscribeQueue")
       /\ SubscribedToQueue(Last(topicCalls').topic, Last(topicCalls').queue)) =>
        LET call == Last(topicCalls') IN
        /\ thrown' = "A subscription between the topic " \o nodeId(call.topic)
                       \o " and the queue " \o call.queue \o " already exists"
        /\ queueChildren' = queueChildren
        /\ queuePolicy' = queuePolicy ]_vars

\* The topic subscribed the queue, and its second subscribeQueue was rejected.
C12_Witness ==
  /\ Len(topicCalls) = 2
  /\ \A i \in 1..2 : /\ topicCalls[i].op = "subscribeQueue"
                     /\ topicCalls[i].topic = "Topic"
                     /\ topicCalls[i].queue = "Queue"
  /\ thrown = "A subscription between the topic Topic and the queue Queue already exists"
  /\ Len(queueChildren["Queue"]) = 1
  /\ Len(queuePolicy["Queue"]) = 1

\* C13: a successful subscribeQueue creates exactly one Subscription, as a
\* child of the queue and not of the topic, with the queue ARN as endpoint and
\* protocol Sqs, and adds exactly one statement to the queue's resource
\* policy: allow sqs:SendMessage on the queue ARN to the service principal
\* sns.amazonaws.com under ArnEquals aws:SourceArn = this topic's ARN.
C13_QueueSubscriptionAndStatement ==
  [][ (IsTopicCall("subscribeQueue") /\ thrown' = NoError) =>
        LET call == Last(topicCalls')
            t == call.topic
            q == call.queue
            kids == queueChildren'[q] IN
        /\ Len(kids) = Len(queueChildren[q]) + 1
        /\ SubSeq(kids, 1, Len(queueChildren[q])) = queueChildren[q]
        /\ Last(kids).type = "Subscription"
        /\ Last(kids).props = Subscription(t, "arn:aws:sqs:" \o q, "Sqs",
                                           call.rawMessageDelivery)
        /\ \A p \in Queues \ {q} : queueChildren'[p] = queueChildren[p]
        /\ children' = children
        /\ queuePolicy' =
             [queuePolicy EXCEPT ![q] =
                Append(@, [Effect |-> "Allow",
                           Resource |-> <<"arn:aws:sqs:" \o q>>,
                           Action |-> <<"sqs:SendMessage">>,
                           Principal |-> [Service |-> <<"sns.amazonaws.com">>],
                           Condition |-> Def([operator |-> "ArnEquals",
                                              key |-> "aws:SourceArn",
                                              value |-> topicArn(t)])])] ]_vars

\* The imported topic subscribed OtherQueue with raw message delivery.
C13_Witness ==
  /\ Len(topicCalls) = 1
  /\ topicCalls[1].op = "subscribeQueue"
  /\ topicCalls[1].topic = "ImportedTopic"
  /\ topicCalls[1].queue = "OtherQueue"
  /\ thrown = NoError
  /\ Len(queueChildren["OtherQueue"]) = 1
  /\ queueChildren["OtherQueue"][1].props.protocol = "Sqs"
  /\ queueChildren["OtherQueue"][1].props.rawMessageDelivery = Def(TRUE)
  /\ Len(queuePolicy["OtherQueue"]) = 1
  /\ children["ImportedTopic"] = << >>

\* The live topic for the imported one and the imported one for the live one.
OtherMode(t) == IF t = "Topic" THEN "ImportedTopic" ELSE "Topic"

\* A string with the identity of the live and of the imported topic exchanged:
\* their ARNs, their node ids, the subscription names and the error messages
\* made from the node ids.
RECURSIVE SwapIn(_, _)
SwapIn(str, pairs) ==
  IF pairs = << >> THEN str
  ELSE IF str = Head(pairs)[1] THEN Head(pairs)[2]
  ELSE IF str = Head(pairs)[2] THEN Head(pairs)[1]
  ELSE SwapIn(str, Tail(pairs))

SwapTopics(str) ==
  SwapIn(str,
         << <<"arn:aws:sns:Topic", "arn:aws:sns:ImportedTopic">>,
            <<"Topic", "ImportedTopic">>,
            <<"TopicSubscription", "ImportedTopicSubscription">>,
            <<"A subscription between the topic Topic and the queue Queue already exists",
              "A subscription between the topic ImportedTopic and the queue Queue already exists">>,
            <<"A subscription between the topic Topic and the queue OtherQueue already exists",
              "A subscription between the topic ImportedTopic and the queue OtherQueue already exists">>,
            <<"A subscription between the topic Topic and the lambda Function already exists",
              "A subscription between the topic ImportedTopic and the lambda Function already exists">> >>)

SwapKids(kids) ==
  [i \in 1..Len(kids) |->
     [id |-> SwapTopics(kids[i].id), type |-> kids[i].type,
      props |-> [kids[i].props EXCEPT !.topic = SwapTopics(@)]]]

SwapStatements(stmts) ==
  [i \in 1..Len(stmts) |->
     [stmts[i] EXCEPT !.Condition = Def([@.value EXCEPT !.value = SwapTopics(@)])]]

SwapPermissions(permissions) ==
  [i \in 1..Len(permissions) |->
     [permissions[i] EXCEPT !.id = SwapTopics(@), !.sourceArn = SwapTopics(@)]]

SwapGrants(grants) ==
  [i \in 1..Len(grants) |->
     [grants[i] EXCEPT !.Resource = <<SwapTopics(@[1])>>]]

C16_DuplicateSiblingRejected ==
  [][ \A op \in {"subscribe", "subscribeEmail", "subscribeUrl"} :
        (IsTopicCall(op)
         /\ HasChild(children[Last(topicCalls').topic], Last(topicCalls').name)
         /\ (op = "subscribeUrl" =>
               \/ startsWith(Last(topicCalls').url, "http://")
               \/ startsWith(Last(topicCalls').url, "https://"))) =>
          /\ thrown' = "There is already a Construct with this name"
          /\ children' = children ]_vars

\* A topic was subscribed under "Sub", and an email subscription declared
\* under the same name was rejected, the first one still being the only child.
C16_Witness ==
  /\ Len(topicCalls) = 2
  /\ topicCalls[1].op = "subscribe" /\ topicCalls[2].op = "subscribeEmail"
  /\ topicCalls[1].topic = "Topic" /\ topicCalls[2].topic = "Topic"
  /\ topicCalls[1].name = "Sub" /\ topicCalls[2].name = "Sub"
  /\ topicCalls[1].protocol = "Sqs"
  /\ thrown = DuplicateIdError
  /\ Len(children["Topic"]) = 1
  /\ children["Topic"][1].props.protocol = "Sqs"

\* Topic t has a Subscription among the children of function f.
SubscribedToFunction(t, f) ==
  \E i \in 1..Len(functionChildren[f]) :
    /\ functionChildren[f][i].type = "Subscription"
    /\ functionChildren[f][i].props.topic = topicArn(t)

\* C19: subscribeQueue and subscribeLambda report 'already exists' only when
\* this same topic was already subscribed to that target: a topic that is not
\* yet subscribed to a queue (or function) construct is subscribed to it
\* without an error, whatever other topics, with whatever local ids, are
\* subscribed to it already.
C19_RejectedOnlyForSameTopic ==
  [][ /\ (IsTopicCall("subscribeQueue")
          /\ isConstruct(Last(topicCalls').queue)
          /\ ~SubscribedToQueue(Last(topicCalls').topic, Last(topicCalls').queue)) =>
            /\ thrown' = NoError
            /\ Len(queueChildren'[Last(topicCalls').queue])
                 = Len(queueChildren[Last(topicCalls').queue]) + 1
      /\ (IsTopicCall("subscribeLambda")
          /\ isConstruct(Last(topicCalls').lambdaFunction)
          /\ ~SubscribedToFunction(Last(topicCalls').topic,
                                   Last(topicCalls').lambdaFunction)) =>
            /\ thrown' = NoError
            /\ Len(functionChildren'[Last(topicCalls').lambdaFunction])
                 = Len(functionChildren[Last(topicCalls').lambdaFunction]) + 1 ]_vars

\* C17: PublishToTopic.bind returns a task configuration whose single policy
\* statement allows exactly sns:Publish on exactly the topic's ARN, whose
\* parameters carry TopicArn equal to that ARN, and whose MessageStructure is
\* 'json' exactly when messagePerSubscriptionType is true and is absent
\* otherwise; bind changes nothing of the topic.
C17_BindPublishesToTopicArn ==
  [][ IsTopicCall("bind") =>
        LET call == Last(topicCalls')
            arn == "arn:aws:sns:" \o call.topic
            config == taskConfig'.value IN
        /\ taskConfig'.defined
        /\ config.policyStatements = << [Effect |-> "Allow",
                                         Action |-> <<"sns:Publish">>,
                                         Resource |-> <<arn>>] >>
        /\ config.parameters["TopicArn"] = arn
        /\ ("MessageStructure" \in DOMAIN config.parameters)
             <=> (call.props.messagePerSubscriptionType = Def(TRUE))
        /\ ("MessageStructure" \in DOMAIN config.parameters)
             => config.parameters["MessageStructure"] = "json"
        /\ UNCHANGED << children, policy, policyCalls >> ]_vars

\* A topic that has a subscription was bound to a task with a message per
\* subscription type.
C17_Witness ==
  /\ Len(topicCalls) = 2
  /\ topicCalls[1].op = "subscribe" /\ topicCalls[1].topic = "Topic"
  /\ topicCalls[2].op = "bind" /\ topicCalls[2].topic = "Topic"
  /\ topicCalls[2].props.messagePerSubscriptionType = Def(TRUE)
  /\ Len(children["Topic"]) = 1
  /\ taskConfig.defined
  /\ taskConfig.value.parameters["MessageStructure"] = "json"
  /\ taskConfig.value.parameters["TopicArn"] = "arn:aws:sns:Topic"

\* ------------------------------------------ alarms in the tree (claims)

IsStackCall(op) ==
  /\ Len(stackCalls') = Len(stackCalls) + 1
  /\ Last(stackCalls').op = op

\* C15: Alarm.fromAlarmArn(scope, id, arn), under an id no child of the scope
\* has, returns an imported reference that is registered as a construct node
\* with the given id under scope, whose alarmArn is exactly the supplied ARN
\* and whose alarmName is the resource-name component of that ARN, the
\* component after 'alarm' with ':' as the separator.
C15_ImportedAlarmFromArn ==
  [][ (IsStackCall("fromAlarmArn")
       /\ ~HasChild(stackChildren, Last(stackCalls').id)) =>
        LET call == Last(stackCalls')
            node == Last(stackChildren') IN
        /\ thrown' = NoError
        /\ Len(stackChildren') = Len(stackChildren) + 1
        /\ SubSeq(stackChildren', 1, Len(stackChildren)) = stackChildren
        /\ node.id = call.id
        /\ node.props.alarmArn = call.alarmArn
        /\ node.props.alarmName =
             (CASE call.alarmArn = "arn:aws:cloudwatch:us-east-1:123456789012:alarm:MyAlarm"
                     -> Def("MyAlarm")
                [] call.alarmArn = "arn:aws:cloudwatch:eu-west-1:123456789012:alarm:Other"
                     -> Def("Other")
                [] OTHER -> Undefined) ]_vars

\* An alarm was imported under the id "OtherAlarm" next to an Alarm construct.
C15_Witness ==
  /\ Len(stackCalls) = 2
  /\ stackCalls[1].op = "new Alarm" /\ stackCalls[1].id = "Alarm"
  /\ stackCalls[2].op = "fromAlarmArn" /\ stackCalls[2].id = "OtherAlarm"
  /\ stackCalls[2].alarmArn = "arn:aws:cloudwatch:us-east-1:123456789012:alarm:MyAlarm"
  /\ thrown = NoError
  /\ Len(stackChildren) = 2
  /\ stackChildren[2].id = "OtherAlarm"
  /\ stackChildren[2].props.alarmName = Def("MyAlarm")

\* The symbol of each comparison operator.
SymbolOf(operator) ==
  CASE operator = "GreaterThanOrEqualToThreshold" -> ">="
    [] operator = "GreaterThanThreshold" -> ">"
    [] operator = "LessThanThreshold" -> "<"
    [] operator = "LessThanOrEqualToThreshold" -> "<="

\* C18: the label toAnnotation returns renders the alarm's comparison
\* operator with that operator's symbol ('>=', '>', '<', '<=' for the four
\* operators), the operator being GreaterThanOrEqualToThreshold when none was
\* supplied.
C18_LabelShowsOperatorSymbol ==
  [][ (IsStackCall("new Alarm") /\ thrown' = NoError) =>
        LET props == Last(stackCalls').props
            operator == IF props.comparisonOperator = Undefined
                        THEN "GreaterThanOrEqualToThreshold"
                        ELSE props.comparisonOperator.value
            name == IF props.metric.label = Undefined
                    THEN props.metric.metricName ELSE props.metric.label.value IN
        toAnnotation(Last(stackChildren')).label =
          name \o " " \o SymbolOf(operator) \o " " \o ToString(props.threshold)
            \o " for " \o ToString(props.evaluationPeriods) \o " datapoints within "
            \o describePeriod(props.evaluationPeriods * props.metric.periodSec) ]_vars

====
